---- MODULE Spec2Model ----
\* Model of apps/ecommerce_full_stack/frontend.py: a Streamlit script that is
\* re-executed top to bottom on every user interaction of one browser session.
\* A script run is modelled statement group by statement group (pc), the
\* values that survive a run (session state, widget values, the cached
\* database connection) are the persistent part of the state.
EXTENDS Integers, Sequences, FiniteSets, TLC

\* ------------------------------------------------------------------ bounds
\* Number of documents of the 'multimodal' collection.
NumDocs == 6
\* Largest number of documents the backend is let to return for one search.
MaxResults == 4

\* ------------------------------------------------------- credential gate
USERNAME == "admin"
PASSWORD == "password"

\* Passwords and usernames a user may type.
Passwords == {"password", "wrong", "Password"}
Usernames == {"admin", "Admin"}

\* hashlib.sha256(p.encode()).hexdigest(), tabulated over Passwords.
sha256_hexdigest(p) ==
    CASE p = "password" -> "5e884898da28047151d0e56f8dc6292773603d0d6aabbdd62a11ef721d1542d8"
      [] p = "wrong"    -> "8810ad581e59f2bc3928b261707a71308f7e139eb04820366dc4d5c18d980225"
      [] p = "Password" -> "e7cf3ef4f17c3999a94f2c6f612e8a888e5b1026878e4e19398b23bd38ec221a"
      [] p = ""         -> "e3b0c44298fc1c149afbf4c8996fb92427ae41e4649b934ca495991b7852b855"

hash_password(password) == sha256_hexdigest(password)

hashed_password == hash_password(PASSWORD)

\* Mutant of verify: the username is not compared.
verify_password_only(u, p) == sha256_hexdigest(p) = hashed_password

\* The condition of the Login handler.
verify(u, p) == u = USERNAME /\ sha256_hexdigest(p) = hashed_password

\* Mutant of LoginResult: an authenticated session stays authenticated.
LoginResultSticky(prev, u, p) ==
    IF prev = "True" \/ verify(u, p) THEN "True" ELSE "False"

\* The value the Login handler stores in the session state.
LoginResult(prev, u, p) == IF verify(u, p) THEN "True" ELSE "False"

\* Mutant of InitialStatus: the status is reset on every run.
InitialStatusReset(s) == "None"

\* "if 'authentication_status' not in st.session_state: ... = None"
InitialStatus(s) == IF s = "absent" THEN "None" ELSE s

\* Mutant of Truthy: only a rejected session is kept out.
TruthyNotFalse(s) == s # "False"

\* Python truth value of the stored status (None and False are falsy).
Truthy(s) == s = "True"

\* --------------------------------------------------------------- documents
TitleOf(i) == IF i % 2 = 1 THEN "t1" ELSE "t2"
ImgOf(i) == IF i % 3 = 0 THEN "i0" ELSE IF i % 3 = 1 THEN "i1" ELSE "i2"

\* Fields the stored document i has: the fourth of every six lacks its
\* title, the fifth of every six lacks its image.
FieldsOf(i) ==
    {"_id", "img", "title"} \ ((IF i % 6 = 4 THEN {"title"} ELSE {})
                               \cup (IF i % 6 = 5 THEN {"img"} ELSE {}))

FieldValue(i, f) ==
    CASE f = "_id"   -> i
      [] f = "img"   -> ImgOf(i)
      [] f = "title" -> TitleOf(i)

\* The stored document i, as a mapping from field names to values.
Doc(i) == [f \in FieldsOf(i) |-> FieldValue(i, f)]

NoDoc == [f \in {} |-> ""]

\* r.unpack(): the document as a plain mapping.
unpack(d) == d

\* ------------------------------------------------------- query dispatcher
\* Default result bound of _search, the bound text_2_text_search passes,
\* and the limit of the raw structured query.
DefaultN == 3
TextN == 10
RawLimit == 5

VECTOR == "superduperdb:Collection(multimodal)"
RAW == "pymongo:ecommerce.multimodal"

\* Document({k: v}) payloads: plain text, or an image wrapped by the
\* pil_image encoder.
Text(t) == [encoder |-> "none", x |-> t]
pil_image(img) == [encoder |-> "pil_image", x |-> img]

\* The request _search builds: collection.like(Document({k: v}),
\* vector_index=index, n=n).find({}), on whatever `collection` is bound to
\* when the call is made.
search(coll, k, v, index, n) ==
    [coll |-> coll, call |-> "like", k |-> k, v |-> v, index |-> index, n |-> n]

text_2_image_search(coll, text) ==
    search(coll, "search", Text(text), "my-index", DefaultN)

\* Mutant of text_2_text_search: copied from text_2_image_search with only
\* the field changed.
text_2_text_search_copied(coll, text) ==
    search(coll, "title", Text(text), "my-index", DefaultN)

text_2_text_search(coll, text) ==
    search(coll, "title", Text(text), "text-index", TextN)

image_search(coll, img) ==
    search(coll, "img", pil_image(img), "my-index", DefaultN)

\* The request random_product builds: collection.aggregate([{$sample: 1}]).
random_product(coll) ==
    [coll |-> coll, call |-> "aggregate", k |-> "$sample", v |-> Text(""),
     index |-> "", n |-> 1]

\* The request of the Data tab: find(filter, {'_id': 0}).limit(5).
raw_query(coll, text) ==
    [coll |-> coll, call |-> "find", k |-> "filter", v |-> Text(text),
     index |-> "", n |-> RawLimit]

NoOp == [coll |-> "", call |-> "none", k |-> "", v |-> Text(""), index |-> "", n |-> 0]

\* Texts a user may enter in the Data tab, and json.loads of each: the
\* filter as a mapping, or a parse failure for the malformed text.
Queries == {"{}", "{\"title\": \"t1\"}", "{"}
json_ok(text) == text # "{"
json_loads(text) ==
    IF text = "{}" THEN [f \in {} |-> ""] ELSE [f \in {"title"} |-> "t1"]

Min(a, b) == IF a < b THEN a ELSE b

Matches(d, filter) ==
    \A f \in DOMAIN filter : f \in DOMAIN d /\ d[f] = filter[f]

Project(d, excluded) == [f \in (DOMAIN d) \ excluded |-> d[f]]

Limit(s, n) == SubSeq(s, 1, Min(n, Len(s)))

\* The documents of a collection of size documents that match filter, in
\* natural order.
Select(size, filter) ==
    SelectSeq([i \in 1 .. size |-> Doc(i)], LAMBDA d : Matches(d, filter))

\* Mutant of raw_find: the projection is left out.
raw_find_unprojected(size, filter) == Limit(Select(size, filter), RawLimit)

\* collection.find(filter, {'_id': 0}).limit(5), read to the end.
raw_find(size, filter) ==
    Limit([j \in 1 .. Len(Select(size, filter)) |->
              Project(Select(size, filter)[j], {"_id"})], RawLimit)

\* Files a user may upload, and PIL.Image.open of each.
Files == {"shoe.png", "notes.txt"}
PIL_identifies(f) == f = "shoe.png"
PIL_Image_open(f) == "shoe"

SearchTexts == {"", "shoes"}

\* Fields each rendering statement reads from the document it renders.
\* Mutant of Tab1Reads: the caption is not read.
Tab1ReadsImgOnly == {"img"}
Tab1Reads == {"img", "title"}
Tab2Reads == {"img", "title"}
SampleReads == {"img", "title"}
ByImageReads == {"img"}
ByTitleReads == {"title"}

\* Mutant of SearchSubmitted: the Search handler also runs on Refresh.
SearchSubmittedOrRefresh(t) == t \in {"search", "refresh"}
\* st.button("Search") / st.button("Query") / st.sidebar.button('Login')
\* are true in the run their click triggered.
SearchSubmitted(t) == t = "search"
QuerySubmitted(t) == t = "query"
LoginClicked(t) == t = "login"

\* ------------------------------------------------------------------ state
VARIABLES
    authentication_status, \* st.session_state['authentication_status'], or "absent"
    input_username,        \* value of the Username widget
    input_password,        \* value of the Password widget
    query_text,            \* value of the Data tab's text area
    search_text,           \* value of the Text Search tab's text input
    uploaded_file,         \* value of the file uploader, "None" when empty
    db_cached,             \* st.cache_resource holds the connection of _init
    nDocs,                 \* size of the stored collection
    attempt,               \* the pair the latest Login click submitted
    trigger,               \* the interaction that started the current run
    pc,                    \* position of the current run in the script
    error,                 \* the exception that ended the run, or "none"
    collection,            \* binding of the script's name `collection`
    r,                     \* binding of the script's name `r`
    cursor,                \* documents read from the current result cursor
    calls,                 \* backend requests made in this run, per function
    last_op,               \* the latest backend request of this run
    last_fn,               \* the function that made it
    rendered,              \* the latest document handed to a rendering call
    raw_res,               \* the documents the Data tab printed in this run
    sample_doc,            \* the document random_product returned in this run
    widgets                \* widgets rendered so far in this run

vars == <<authentication_status, input_username, input_password, query_text,
          search_text, uploaded_file, db_cached, nDocs, attempt, trigger, pc,
          error, collection, r, cursor, calls, last_op, last_fn, rendered, raw_res,
          sample_doc, widgets>>

persistent == <<authentication_status, input_username, input_password,
                query_text, search_text, uploaded_file, db_cached, nDocs,
                attempt>>

NoAttempt == [made |-> FALSE, u |-> "", p |-> ""]

Functions == {"_init", "raw", "text_2_image_search", "text_2_text_search",
              "image_search", "random_product"}

NoRender == [site |-> "none", doc |-> NoDoc]

\* The bindings a script run starts with.
FreshRun(t) ==
    /\ trigger' = t
    /\ pc' = "start"
    /\ error' = "none"
    /\ collection' = "unbound"
    /\ r' = NoDoc
    /\ cursor' = 0
    /\ calls' = [f \in Functions |-> 0]
    /\ last_op' = NoOp
    /\ last_fn' = "none"
    /\ rendered' = NoRender
    /\ raw_res' = <<>>
    /\ sample_doc' = NoDoc
    /\ widgets' = {}

Init ==
    /\ authentication_status = "absent"
    /\ input_username = ""
    /\ input_password = ""
    /\ query_text = "{}"
    /\ search_text = ""
    /\ uploaded_file = "None"
    /\ db_cached = FALSE
    /\ nDocs \in {0, 1, NumDocs}
    /\ attempt = NoAttempt
    /\ trigger = "load"
    /\ pc = "start"
    /\ error = "none"
    /\ collection = "unbound"
    /\ r = NoDoc
    /\ cursor = 0
    /\ calls = [f \in Functions |-> 0]
    /\ last_op = NoOp
    /\ last_fn = "none"
    /\ rendered = NoRender
    /\ raw_res = <<>>
    /\ sample_doc = NoDoc
    /\ widgets = {}

Running == pc # "done" /\ error = "none"
RunOver == ~Running

\* ------------------------------------------------------- the script run
\* Lines 8-10: the status key is created on a session's first run only.
Start ==
    /\ pc = "start" /\ error = "none"
    /\ authentication_status' = InitialStatus(authentication_status)
    /\ pc' = "login"
    /\ UNCHANGED <<input_username, input_password, query_text, search_text,
                   uploaded_file, db_cached, nDocs, attempt, trigger, error, collection,
                   r, cursor, calls, last_op, last_fn, rendered, raw_res,
                   sample_doc, widgets>>

\* Lines 12-30: the sidebar widgets and the Login handler.
Login ==
    /\ pc = "login" /\ error = "none"
    /\ widgets' = widgets \cup {"Login"}
    /\ authentication_status' =
          IF LoginClicked(trigger)
          THEN LoginResult(authentication_status, input_username, input_password)
          ELSE authentication_status
    /\ pc' = "gate"
    /\ UNCHANGED <<input_username, input_password, query_text, search_text,
                   uploaded_file, db_cached, nDocs, attempt, trigger, error, collection,
                   r, cursor, calls, last_op, last_fn, rendered, raw_res,
                   sample_doc>>

\* Line 33: the content is evaluated only for a truthy status.
Gate ==
    /\ pc = "gate" /\ error = "none"
    /\ pc' = IF Truthy(authentication_status) THEN "init" ELSE "done"
    /\ UNCHANGED <<persistent, trigger, error, collection, r, cursor, calls,
                   last_op, last_fn, rendered, raw_res, sample_doc, widgets>>

\* Lines 34-62: _init connects once per process (st.cache_resource), then
\* `collection` is bound to the vector-search collection.
InitDb ==
    /\ pc = "init" /\ error = "none"
    /\ \/ /\ db_cached
          /\ pc' = "tab0" /\ collection' = VECTOR
          /\ UNCHANGED <<db_cached, error, calls, last_op, last_fn>>
       \/ /\ ~db_cached
          /\ calls' = [calls EXCEPT !["_init"] = @ + 1]
          /\ last_fn' = "_init"
          /\ last_op' = [NoOp EXCEPT !.call = "connect"]
          /\ \/ /\ db_cached' = TRUE /\ pc' = "tab0" /\ collection' = VECTOR
                /\ error' = error
             \/ /\ error' = "ConnectionError"
                /\ UNCHANGED <<db_cached, pc, collection>>
    /\ UNCHANGED <<authentication_status, input_username, input_password,
                   query_text, search_text, uploaded_file, nDocs, attempt,
                   trigger, r, cursor, rendered, raw_res, sample_doc, widgets>>

\* Lines 89-102: the Data tab. A click on Query rebinds `collection` to the
\* pymongo collection, parses the text and prints the documents found.
Tab0 ==
    /\ pc = "tab0" /\ error = "none"
    /\ widgets' = widgets \cup {"Query"}
    /\ IF QuerySubmitted(trigger)
       THEN /\ collection' = RAW
            /\ IF json_ok(query_text)
               THEN /\ calls' = [calls EXCEPT !["raw"] = @ + 1]
                    /\ last_fn' = "raw"
                    /\ last_op' = raw_query(RAW, query_text)
                    /\ \/ /\ raw_res' = raw_find(nDocs, json_loads(query_text))
                          /\ pc' = "tab1" /\ error' = error
                       \/ /\ error' = "BackendError"
                          /\ UNCHANGED <<raw_res, pc>>
               ELSE /\ error' = "JSONDecodeError"
                    /\ UNCHANGED <<calls, last_fn, last_op, raw_res, pc>>
       ELSE /\ pc' = "tab1"
            /\ UNCHANGED <<collection, calls, last_fn, last_op, raw_res, error>>
    /\ UNCHANGED <<persistent, trigger, r, cursor, rendered, sample_doc>>

\* db.execute(collection.like(...).find({})) as _search evaluates it: the
\* request is made on the current binding of `collection`; a pymongo
\* collection has no like method, so the call raises on it.
Dispatch(fn, op, loopPc) ==
    /\ calls' = [calls EXCEPT ![fn] = @ + 1]
    /\ last_fn' = fn
    /\ last_op' = op
    /\ cursor' = 0
    /\ \/ /\ op.coll = VECTOR /\ pc' = loopPc /\ error' = error
       \/ /\ op.coll = VECTOR /\ pc' = pc /\ error' = "BackendError"
       \/ /\ op.coll # VECTOR /\ pc' = pc /\ error' = "TypeError"

\* for r in results: r = r.unpack(); <render, reading the fields `reads`>
Loop(site, reads, nextPc) ==
    /\ \/ /\ cursor < Min(last_op.n, MaxResults)
          /\ \E i \in 1 .. nDocs :
                /\ r' = unpack(Doc(i))
                /\ cursor' = cursor + 1
                /\ IF reads \subseteq DOMAIN Doc(i)
                   THEN rendered' = [site |-> site, doc |-> unpack(Doc(i))]
                        /\ error' = error
                   ELSE error' = "KeyError" /\ rendered' = rendered
          /\ pc' = pc
       \/ /\ pc' = nextPc
          /\ UNCHANGED <<r, cursor, rendered, error>>
    /\ UNCHANGED <<persistent, trigger, collection, calls, last_op, last_fn,
                   raw_res, sample_doc, widgets>>

\* Lines 104-108: the Text Search tab.
Tab1 ==
    /\ pc = "tab1" /\ error = "none"
    /\ widgets' = widgets \cup {"Search"}
    /\ IF SearchSubmitted(trigger)
       THEN Dispatch("text_2_image_search",
                     text_2_image_search(collection, search_text), "tab1_loop")
       ELSE /\ pc' = "tab2"
            /\ UNCHANGED <<calls, last_fn, last_op, cursor, error>>
    /\ UNCHANGED <<persistent, trigger, collection, r, rendered, raw_res,
                   sample_doc>>

\* Lines 109-111.
Tab1Loop ==
    /\ pc = "tab1_loop" /\ error = "none"
    /\ Loop("tab1", Tab1Reads, "tab2")

\* Lines 113-117: the Image Search tab searches whenever a file is held.
Tab2 ==
    /\ pc = "tab2" /\ error = "none"
    /\ widgets' = widgets \cup {"Uploader"}
    /\ IF uploaded_file # "None"
       THEN IF PIL_identifies(uploaded_file)
            THEN Dispatch("image_search",
                          image_search(collection, PIL_Image_open(uploaded_file)),
                          "tab2_loop")
            ELSE /\ error' = "UnidentifiedImageError"
                 /\ UNCHANGED <<calls, last_fn, last_op, cursor, pc>>
       ELSE /\ pc' = "tab3"
            /\ UNCHANGED <<calls, last_fn, last_op, cursor, error>>
    /\ UNCHANGED <<persistent, trigger, collection, r, rendered, raw_res,
                   sample_doc>>

\* Lines 118-120.
Tab2Loop ==
    /\ pc = "tab2_loop" /\ error = "none"
    /\ Loop("tab2", Tab2Reads, "tab3")

\* Lines 122-130: the Browse tab samples one document, renders the Refresh
\* button and the sampled document.
Tab3 ==
    /\ pc = "tab3" /\ error = "none"
    /\ calls' = [calls EXCEPT !["random_product"] = @ + 1]
    /\ last_fn' = "random_product"
    /\ last_op' = random_product(collection)
    /\ \/ /\ collection # VECTOR
          /\ error' = "TypeError"
          /\ UNCHANGED <<r, sample_doc, widgets, rendered, pc>>
       \/ /\ collection = VECTOR
          /\ error' = "BackendError"
          /\ UNCHANGED <<r, sample_doc, widgets, rendered, pc>>
       \/ /\ collection = VECTOR /\ nDocs = 0
          /\ error' = "StopIteration"
          /\ UNCHANGED <<r, sample_doc, widgets, rendered, pc>>
       \/ /\ collection = VECTOR
          /\ \E i \in 1 .. nDocs :
                /\ r' = unpack(Doc(i))
                /\ sample_doc' = unpack(Doc(i))
                /\ widgets' = widgets \cup {"Refresh"}
                /\ IF SampleReads \subseteq DOMAIN Doc(i)
                   THEN /\ rendered' = [site |-> "sample", doc |-> unpack(Doc(i))]
                        /\ pc' = "tab3_img" /\ error' = error
                   ELSE /\ error' = "KeyError"
                        /\ UNCHANGED <<rendered, pc>>
    /\ UNCHANGED <<persistent, trigger, collection, cursor, raw_res>>

\* Lines 132-136: the search seeded by the image of `r`.
Tab3Image ==
    /\ pc = "tab3_img" /\ error = "none"
    /\ Dispatch("image_search", image_search(collection, r["img"]),
                "tab3_img_loop")
    /\ UNCHANGED <<persistent, trigger, collection, r, rendered, raw_res,
                   sample_doc, widgets>>

\* Lines 137-139: the loop rebinds `r` to each result in turn.
Tab3ImageLoop ==
    /\ pc = "tab3_img_loop" /\ error = "none"
    /\ Loop("by_image", ByImageReads, "tab3_txt")

\* Lines 141-143: the search seeded by the title of whatever `r` is bound
\* to after the loop above.
Tab3Title ==
    /\ pc = "tab3_txt" /\ error = "none"
    /\ IF "title" \in DOMAIN r
       THEN Dispatch("text_2_text_search",
                     text_2_text_search(collection, r["title"]), "tab3_txt_loop")
       ELSE /\ error' = "KeyError"
            /\ UNCHANGED <<calls, last_fn, last_op, cursor, pc>>
    /\ UNCHANGED <<persistent, trigger, collection, r, rendered, raw_res,
                   sample_doc, widgets>>

\* Lines 144-146.
Tab3TitleLoop ==
    /\ pc = "tab3_txt_loop" /\ error = "none"
    /\ Loop("by_title", ByTitleReads, "done")

\* --------------------------------------------------------- interactions
\* Each interaction with a rendered widget starts a new run of the script.
ClickLogin ==
    /\ RunOver /\ "Login" \in widgets
    /\ \E u \in Usernames, p \in Passwords :
          /\ input_username' = u
          /\ input_password' = p
          /\ attempt' = [made |-> TRUE, u |-> u, p |-> p]
    /\ FreshRun("login")
    /\ UNCHANGED <<authentication_status, query_text, search_text,
                   uploaded_file, db_cached, nDocs>>

\* Typing into the sidebar fields without clicking Login also reruns.
EditCredentials ==
    /\ RunOver /\ "Login" \in widgets
    /\ \E u \in Usernames, p \in Passwords :
          /\ <<u, p>> # <<input_username, input_password>>
          /\ input_username' = u
          /\ input_password' = p
    /\ FreshRun("edit")
    /\ UNCHANGED <<authentication_status, query_text, search_text,
                   uploaded_file, db_cached, nDocs, attempt>>

SubmitQuery ==
    /\ RunOver /\ "Query" \in widgets
    /\ \E q \in Queries : query_text' = q
    /\ FreshRun("query")
    /\ UNCHANGED <<authentication_status, input_username, input_password,
                   search_text, uploaded_file, db_cached, nDocs, attempt>>

SubmitSearch ==
    /\ RunOver /\ "Search" \in widgets
    /\ \E t \in SearchTexts : search_text' = t
    /\ FreshRun("search")
    /\ UNCHANGED <<authentication_status, input_username, input_password,
                   query_text, uploaded_file, db_cached, nDocs, attempt>>

Upload ==
    /\ RunOver /\ "Uploader" \in widgets
    /\ \E f \in (Files \cup {"None"}) \ {uploaded_file} : uploaded_file' = f
    /\ FreshRun("upload")
    /\ UNCHANGED <<authentication_status, input_username, input_password,
                   query_text, search_text, db_cached, nDocs, attempt>>

ClickRefresh ==
    /\ RunOver /\ "Refresh" \in widgets
    /\ FreshRun("refresh")
    /\ UNCHANGED persistent

Rerun ==
    /\ RunOver
    /\ FreshRun("rerun")
    /\ UNCHANGED persistent

Next ==
    \/ Start \/ Login \/ Gate \/ InitDb
    \/ Tab0 \/ Tab1 \/ Tab1Loop \/ Tab2 \/ Tab2Loop
    \/ Tab3 \/ Tab3Image \/ Tab3ImageLoop \/ Tab3Title \/ Tab3TitleLoop
    \/ ClickLogin \/ EditCredentials \/ SubmitQuery \/ SubmitSearch \/ Upload \/ ClickRefresh
    \/ Rerun

Spec == Init /\ [][Next]_vars

\* ------------------------------------------------------------ properties
PcOrder == <<"start", "login", "gate", "init", "tab0", "tab1", "tab1_loop",
             "tab2", "tab2_loop", "tab3", "tab3_img", "tab3_img_loop",
             "tab3_txt", "tab3_txt_loop", "done">>
Rank(p) == CHOOSE i \in 1 .. Len(PcOrder) : PcOrder[i] = p
Past(p) == Rank(pc) > Rank(p)

\* The Login handler of a run triggered by a Login click has run.
AttemptDecided == trigger = "login" /\ Past("login")

SearchCalls ==
    calls["text_2_image_search"] + calls["text_2_text_search"]
    + calls["image_search"] + calls["random_product"] + calls["raw"]

\* C1: a Login click is accepted iff the submitted username is exactly
\* 'admin' and the SHA-256 digest of the submitted password is the digest of
\* 'password'; 'Admin'/'password' and 'admin'/'wrong' are rejected.
C1_AcceptedIffReferencePair ==
    AttemptDecided =>
       /\ authentication_status \in {"True", "False"}
       /\ (authentication_status = "True") <=>
             (/\ input_username = "admin"
              /\ hash_password(input_password) = hash_password("password"))
       /\ (input_username = "Admin" /\ input_password = "password")
             => authentication_status = "False"
       /\ (input_username = "admin" /\ input_password = "wrong")
             => authentication_status = "False"

C1_Witness ==
    /\ AttemptDecided
    /\ input_username = "Admin" /\ input_password = "password"
    /\ authentication_status = "False"

\* C2: whenever no attempt is pending, the status is exactly the result of
\* the most recent Login click, whatever the status was before it and
\* however many attempts preceded it.
C2_StatusIsLastAttempt ==
    (attempt.made /\ (trigger = "login" => Past("login"))) =>
       authentication_status =
          IF attempt.u = "admin"
             /\ hash_password(attempt.p) = hash_password("password")
          THEN "True" ELSE "False"

\* A rejected attempt made in a session that had been authenticated (the
\* connection is cached only by an authenticated run).
C2_Witness ==
    /\ AttemptDecided /\ db_cached
    /\ attempt.u = "admin" /\ attempt.p = "wrong"
    /\ authentication_status = "False"

\* C3: the status is first set to None, afterwards it is changed only by the
\* Login handler of a run a Login click triggered, and once it is True or
\* False it is never None again.
C3_OnlyLoginChangesStatus ==
    [][/\ authentication_status' # authentication_status =>
             \/ /\ authentication_status = "absent"
                /\ authentication_status' = "None"
             \/ /\ pc = "login" /\ trigger = "login"
                /\ authentication_status' \in {"True", "False"}
       /\ authentication_status \in {"True", "False"} =>
             authentication_status' \in {"True", "False"}]_vars

\* A search run has completed in an authenticated session.
C3_Witness ==
    /\ pc = "done" /\ trigger = "search"
    /\ authentication_status = "True"
    /\ attempt.made

\* C4: a run that is past the gate, or has made any backend request
\* (connection, search, sample, raw query), has an authenticated status.
C4_GateBeforeDispatch ==
    (\/ \E f \in Functions : calls[f] > 0
     \/ last_op # NoOp
     \/ (Past("gate") /\ pc # "done")) =>
       authentication_status = "True"

C4_Witness ==
    /\ authentication_status = "True"
    /\ calls["_init"] = 1
    /\ calls["random_product"] = 1
    /\ calls["text_2_text_search"] = 1

\* C5: every request of text_2_image_search is on field 'search', index
\* 'my-index', n = 3, with a text payload; of text_2_text_search on field
\* 'title', index 'text-index', n = 10; of image_search on field 'img',
\* index 'my-index', n = 3, with a pil_image-encoded payload.
C5_VariantParameters ==
    /\ last_fn = "text_2_image_search" =>
          /\ last_op.k = "search" /\ last_op.index = "my-index"
          /\ last_op.n = 3 /\ last_op.v.encoder = "none"
    /\ last_fn = "text_2_text_search" =>
          /\ last_op.k = "title" /\ last_op.index = "text-index"
          /\ last_op.n = 10 /\ last_op.v.encoder = "none"
    /\ last_fn = "image_search" =>
          /\ last_op.k = "img" /\ last_op.index = "my-index"
          /\ last_op.n = 3 /\ last_op.v.encoder = "pil_image"
    /\ last_fn \in {"text_2_image_search", "text_2_text_search", "image_search"}
          => last_op.call = "like" /\ cursor <= last_op.n

C5_Witness ==
    /\ last_fn = "text_2_text_search"
    /\ pc = "tab3_txt_loop"
    /\ cursor > 3

\* C6: the documents a raw structured query prints are at most 5 and none
\* of them has the field '_id'.
C6_RawQueryBounded ==
    /\ Len(raw_res) <= 5
    /\ \A j \in 1 .. Len(raw_res) : "_id" \notin DOMAIN raw_res[j]

\* The filter {} on a collection of more than 5 documents.
C6_Witness ==
    /\ last_fn = "raw" /\ query_text = "{}" /\ nDocs > 5
    /\ Len(raw_res) = 5

\* C7: the similar-by-title request is the text-to-text one and its payload
\* is the title of the document sampled for the view.
C7_TitleSearchUsesSample ==
    last_fn = "text_2_text_search" =>
       /\ last_op.index = "text-index" /\ last_op.n = 10
       /\ last_op.v = Text(sample_doc["title"])

\* C8 (as claimed): every rendered document has both its image and its
\* title.
C8_AllRenderedHaveBoth ==
    rendered.site # "none" => {"img", "title"} \subseteq DOMAIN rendered.doc

\* C8 (amended): a document is rendered only with the fields its rendering
\* statement reads: image and title for text search, image search and the
\* sampled document, the image alone for similar-by-image, the title alone
\* for similar-by-title; a document that lacks a field that is read ends the
\* run with KeyError.
C8_RenderedHaveFieldsRead ==
    /\ rendered.site \in {"tab1", "tab2", "sample"} =>
          {"img", "title"} \subseteq DOMAIN rendered.doc
    /\ rendered.site = "by_image" => "img" \in DOMAIN rendered.doc
    /\ rendered.site = "by_title" => "title" \in DOMAIN rendered.doc
    /\ (pc \in {"tab1_loop", "tab2_loop"} /\ cursor > 0
        /\ ~({"img", "title"} \subseteq DOMAIN r)) => error = "KeyError"
    /\ (pc = "tab3_img_loop" /\ cursor > 0 /\ "img" \notin DOMAIN r)
          => error = "KeyError"
    /\ (pc = "tab3_txt_loop" /\ cursor > 0 /\ "title" \notin DOMAIN r)
          => error = "KeyError"

\* A document without title rendered in the similar-by-image column.
C8_Witness ==
    /\ rendered.site = "by_image"
    /\ "title" \notin DOMAIN rendered.doc
    /\ error = "none"

\* C9 (as claimed): a completed authenticated run triggered by a text
\* search submit or an image upload has made exactly one search request,
\* that of its own variant.
C9_ExactlyOneOperation ==
    (pc = "done" /\ authentication_status = "True") =>
       /\ trigger = "search" =>
             SearchCalls = 1 /\ calls["text_2_image_search"] = 1
       /\ (trigger = "upload" /\ uploaded_file # "None") =>
             SearchCalls = 1 /\ calls["image_search"] = 1

\* C9 (amended): the text-to-image search and the raw query are requested
\* at most once in a run, only in the run their own submit triggered, and
\* exactly once when that run gets past their tab; a completed
\* authenticated run has also requested one sample, one text-to-text search
\* and one image search for the Browse tab, and one more image search when a
\* file is held.
C9_OwnOperationOncePlusBrowse ==
    /\ calls["text_2_image_search"] <= 1
    /\ calls["text_2_image_search"] = 1 => trigger = "search"
    /\ (trigger = "search" /\ authentication_status = "True" /\ Past("tab1"))
          => calls["text_2_image_search"] = 1
    /\ calls["raw"] <= 1
    /\ calls["raw"] = 1 => trigger = "query"
    /\ (trigger = "query" /\ authentication_status = "True" /\ Past("tab0"))
          => calls["raw"] = 1
    /\ (pc = "done" /\ authentication_status = "True") =>
          /\ calls["random_product"] = 1
          /\ calls["text_2_text_search"] = 1
          /\ calls["image_search"] = IF uploaded_file = "None" THEN 1 ELSE 2

C9_Witness ==
    /\ pc = "done" /\ trigger = "search"
    /\ calls["text_2_image_search"] = 1
    /\ calls["image_search"] = 2
    /\ calls["random_product"] = 1
    /\ calls["text_2_text_search"] = 1

\* C10: every similarity-search and sample request of a run is made on the
\* vector-search collection bound at the start of the content section.
C10_CollectionUnchanged ==
    last_op.call \in {"like", "aggregate"} => last_op.coll = VECTOR

====
